---------------------------- MODULE Spec2Model ----------------------------
(***************************************************************************)
(* DocuMind: retrieval-augmented question answering.                      *)
(*                                                                         *)
(* The request handlers of backend/main.py and the pipeline of            *)
(* backend/rag_pipeline.py keep their shared state in three external      *)
(* stores: the relational store (documents, document_chunks,              *)
(* chat_history), the Redis query cache and the upload staging directory. *)
(* A handler is a sequence of calls on those stores and on the remote     *)
(* embedding / completion capabilities.  Each such call (one SQL          *)
(* statement or commit, one Redis command, one remote call) is one atomic *)
(* step of the model; handlers of different requests interleave between   *)
(* their steps, as they do when several server processes share the        *)
(* stores.                                                                 *)
(*                                                                         *)
(* Similarity scores are cosine similarities in hundredths; embedding     *)
(* vectors are unit vectors in NumDirs equally spaced directions of the    *)
(* plane, so that the cosine of two of them is a table lookup.            *)
(***************************************************************************)
EXTENDS Integers, Sequences, FiniteSets, TLC

\* ------------------------------------------------------------------ bounds
MaxTextLen == 3
MaxTopK == 3
MaxQueries == 2
MaxOverlap == 3
MaxTicks == 1
MaxWaits == 1
MaxUploads == 2
MaxAdmin == 1

\* ------------------------------------------------------- program constants
CacheTTL == 3600
DefaultTopK == 5
DefaultThreshold == 70
PreviewLen == 200
ChunkSize == 1000
ChunkOverlap == 200
ContentPreviewLen == 1000

\* ------------------------------------------------------------ text helpers
Min(a, b) == IF a < b THEN a ELSE b

Max(a, b) == IF a > b THEN a ELSE b

SeqsUpTo(S, n) == UNION {[1..k -> S] : k \in 0..n}

\* The characters query texts are drawn from: two case variants of one
\* letter, a second letter, and a whitespace character.
Alphabet == {"a", "A", "b", " "}

IsSpace(c) == c = " "

\* str.lower() on one character.
LowerChar(c) == IF c = "A" THEN "a" ELSE c

\* str.lower(): every character lowered, length and order kept.
Lower(s) == [i \in 1..Len(s) |-> LowerChar(s[i])]

\* The index of the first / last non-whitespace character (0 when none).
FirstNonSpace(s) ==
    IF \E i \in 1..Len(s) : ~IsSpace(s[i])
    THEN CHOOSE i \in 1..Len(s) :
            /\ ~IsSpace(s[i])
            /\ \A j \in 1..(i - 1) : IsSpace(s[j])
    ELSE 0

LastNonSpace(s) ==
    IF \E i \in 1..Len(s) : ~IsSpace(s[i])
    THEN CHOOSE i \in 1..Len(s) :
            /\ ~IsSpace(s[i])
            /\ \A j \in (i + 1)..Len(s) : IsSpace(s[j])
    ELSE 0

\* A mutant of Strip: only trailing whitespace is removed (rstrip).
StripTrailingOnly(s) ==
    IF LastNonSpace(s) = 0 THEN << >> ELSE SubSeq(s, 1, LastNonSpace(s))

\* str.strip(): leading and trailing whitespace removed, the rest kept.
Strip(s) ==
    IF FirstNonSpace(s) = 0 THEN << >>
    ELSE SubSeq(s, FirstNonSpace(s), LastNonSpace(s))

\* hashlib.md5(...).hexdigest(): a digest, taken to be collision free.
Md5Hex(s) == [md5 |-> s]

\* RAGPipeline._get_cache_key: the namespace prefix and the digest of the
\* lowered, stripped query.
get_cache_key(query) == [prefix |-> "rag:query:", hash |-> Md5Hex(Strip(Lower(query)))]

\* ------------------------------------------------------- similarity search
\* cos(k * 45 degrees) in hundredths, k = 0..7.
CosTab == <<100, 71, 0, -71, -100, -71, 0, 71>>

NumDirs == Len(CosTab)

Dirs == 0..(NumDirs - 1)

\* pgvector's <=> : the cosine distance of two embeddings, in hundredths.
CosineDistance(a, b) == 100 - CosTab[((a - b + NumDirs) % NumDirs) + 1]

\* The SELECT's similarity column: 1 - (embedding <=> query).
Similarity(row, qv) == 100 - CosineDistance(row.embedding, qv)

\* All orders of the set S as sequences without repetition.
Orderings(S) ==
    {p \in [1..Cardinality(S) -> S] : \A i, j \in 1..Cardinality(S) : p[i] = p[j] => i = j}

\* A mutant of the WHERE clause: >= instead of >.
RowsAboveOrAtFloor(rows, qv, floor) == {r \in rows : Similarity(r, qv) >= floor}

\* WHERE 1 - (embedding <=> q) > similarity_threshold
RowsAboveFloor(rows, qv, floor) == {r \in rows : Similarity(r, qv) > floor}

\* ORDER BY embedding <=> q: every order of the rows that is ascending in
\* distance; rows at equal distance come in any order the engine picks.
OrderByDistance(S, qv) ==
    {p \in Orderings(S) :
        \A i, j \in 1..Len(p) : i < j => CosineDistance(p[i].embedding, qv) <= CosineDistance(p[j].embedding, qv)}

\* A mutant of the LIMIT clause: one row too many.
LimitOffByOne(p, top_k) == SubSeq(p, 1, Min(top_k + 1, Len(p)))

\* LIMIT top_k
Limit(p, top_k) == SubSeq(p, 1, Min(top_k, Len(p)))

\* RAGPipeline.vector_search: the possible results, each a sequence of
\* (chunk, similarity) pairs.
vector_search(rows, query_embedding, top_k, similarity_threshold) ==
    {[i \in 1..Len(Limit(p, top_k)) |->
          [chunk |-> [id |-> p[i].id, document_id |-> p[i].document_id,
                      chunk_index |-> p[i].chunk_index, content |-> p[i].content],
           score |-> Similarity(p[i], query_embedding)]] :
        p \in OrderByDistance(RowsAboveFloor(rows, query_embedding, similarity_threshold),
                              query_embedding)}

\* -------------------------------------------------------------------- text
\* A text (a file's content, a document's text, a chunk) is a sequence of
\* pieces.  A piece is a run of characters of one uploaded body: the body's
\* tag, the offset of the run's first character in that body and its
\* length; a run of whitespace is a piece with the tag " " and offset 0.
\* Neighbouring pieces that continue each other are kept as one piece, so
\* that equal texts are equal values.
Blank(n) == IF n = 0 THEN << >> ELSE <<[tag |-> " ", off |-> 0, len |-> n]>>

\* The characters off .. off + len - 1 of the body `tag`; the empty text
\* when len is 0.
Slice(tag, off, len) == IF len = 0 THEN << >> ELSE <<[tag |-> tag, off |-> off, len |-> len]>>

IsBlank(piece) == piece.tag = " "

\* len(text)
RECURSIVE TextLen(_)
TextLen(text) == IF text = << >> THEN 0 ELSE text[1].len + TextLen(Tail(text))

Continues(a, b) == a.tag = b.tag /\ (IsBlank(a) \/ a.off + a.len = b.off)

\* s + t
Join(s, t) ==
    IF s = << >> THEN t
    ELSE IF t = << >> THEN s
    ELSE IF Continues(s[Len(s)], t[1])
    THEN SubSeq(s, 1, Len(s) - 1) \o <<[s[Len(s)] EXCEPT !.len = @ + t[1].len]>> \o Tail(t)
    ELSE s \o t

\* text[n:]
RECURSIVE Drop(_, _)
Drop(text, n) ==
    IF n <= 0 \/ text = << >> THEN text
    ELSE IF text[1].len <= n THEN Drop(Tail(text), n - text[1].len)
    ELSE <<[text[1] EXCEPT !.off = IF IsBlank(text[1]) THEN 0 ELSE @ + n, !.len = @ - n]>>
         \o Tail(text)

\* text[:n]
RECURSIVE Prefix(_, _)
Prefix(text, n) ==
    IF n <= 0 \/ text = << >> THEN << >>
    ELSE IF text[1].len <= n THEN <<text[1]>> \o Prefix(Tail(text), n - text[1].len)
    ELSE <<[text[1] EXCEPT !.len = n]>>

\* text.strip(): the whitespace at both ends removed.
StripText(text) ==
    LET a == IF text # << >> /\ IsBlank(text[1]) THEN Tail(text) ELSE text
    IN  IF a # << >> /\ IsBlank(a[Len(a)]) THEN SubSeq(a, 1, Len(a) - 1) ELSE a

\* A file after `data` is written at its start through a handle opened for
\* writing: the bytes written, and what the file held beyond them.
WriteAtStart(file, data) == Join(data, Drop(file, TextLen(data)))

\* ------------------------------------------------------------------- state
VARIABLES
    docs,            \* documents table: id -> row
    chunks,          \* document_chunks table: the committed rows
    history,         \* chat_history table: the committed rows, in insertion order
    cache,           \* the Redis store: key -> [value, expire_at]
    cache_enabled,   \* RAGPipeline.cache_enabled
    ping_ok,         \* whether Redis answered the ping of RAGPipeline.__init__
    now,             \* time.time(), in seconds
    qs,              \* the query requests: handler -> its locals and position
    ds,              \* the delete_document / clear_cache requests
    ups,             \* the upload requests and their background tasks
    files,           \* the staging directory: filename -> file body
    next_id,         \* the sequences of the documents and document_chunks tables
    kin,             \* cache-key harness: the two query texts, the keys stored, the lookup result
    sin              \* search harness: index, query vector, top_k, floor and the result

storeVars == <<docs, chunks, history, cache, files, next_id>>
pipeVars == <<cache_enabled, ping_ok>>
handlerVars == <<qs, ds, ups>>
harnessVars == <<kin, sin>>
vars == <<docs, chunks, history, cache, cache_enabled, ping_ok, now,
          qs, ds, ups, files, next_id, kin, sin>>

\* ----------------------------------------------------------- query inputs
\* The query texts requests carry: two that differ by case and trailing
\* whitespace only, and one about something else.
QueryTexts == {<<"a">>, <<"A", " ">>, <<"b">>}

SessionIds == {"default", "s1"}

\* OpenAIEmbeddings.embed_query: the direction the embedding model gives a
\* query text (a fixed function of the text).
EmbedQuery(text) ==
    IF text = <<"a">> THEN 0
    ELSE IF text = <<"A", " ">> THEN 1
    ELSE 4

\* What the completion chain may answer (temperature 0.7: not a function
\* of the prompt), before answer.strip().
RawAnswers == {<<"x">>, <<"y", " ">>}

NotFoundAnswer == <<"I couldn't find any relevant information in the knowledge base">>

\* json.dumps / json.loads of a bundle or a source list: the text of a
\* value, and the value of a text.
JsonDumps(v) == [json |-> v]

JsonLoads(t) == t.json

\* query_documents calls generate_answer without use_cache: its default.
DefaultUseCache == TRUE

\* ---------------------------------------------------------------- handlers
NoResult == [none |-> TRUE]

IdleQuery ==
    [pc |-> "idle", query |-> << >>, session_id |-> "", use_cache |-> FALSE,
     start_time |-> 0, sources |-> << >>, result |-> NoResult, status |-> "",
     error |-> "", wrote |-> FALSE, top_k |-> 0,
     started_after |-> {}, deleted_before |-> {}, entry_events |-> {}]

\* A mutant of RedisKeys: the pattern matches every key.
RedisKeysAll(prefix) == DOMAIN cache

\* Redis keys: the live entries under a key pattern's prefix.
RedisKeys(prefix) == {k \in DOMAIN cache : k.prefix = prefix}

\* Redis GET: the value stored under the key, or None.
RedisGet(key) ==
    IF key \in DOMAIN cache THEN [found |-> TRUE, value |-> cache[key].value]
    ELSE [found |-> FALSE]

\* A mutant of RedisSetex: the value is dropped.
RedisSetexDropped(key, ttl, value, by) == cache

\* A mutant of RedisSetex: SET without a time to live.
RedisSetexNoExpiry(key, ttl, value, by) ==
    [k \in DOMAIN cache \cup {key} |->
        IF k = key THEN [value |-> value, expire_at |-> -1, writer |-> by]
        ELSE cache[k]]

\* Redis SETEX key ttl value.
RedisSetex(key, ttl, value, by) ==
    [k \in DOMAIN cache \cup {key} |->
        IF k = key THEN [value |-> value, expire_at |-> now + ttl, writer |-> by]
        ELSE cache[k]]

\* Redis DEL keys.
RedisDelete(keys) == [k \in DOMAIN cache \ keys |-> cache[k]]

\* ------------------------------------------------------- retrieve_context
\* content[:200] + "..." if len(content) > 200 else content
ContentPreview(content) ==
    IF TextLen(content) > PreviewLen
    THEN [text |-> Prefix(content, PreviewLen), ellipsis |-> TRUE]
    ELSE [text |-> content, ellipsis |-> FALSE]

\* A mutant of SourcesOf: the entries in the reverse of the result order.
SourcesOfReversed(results) ==
    [i \in 1..Len(results) |->
        [document_id |-> results[Len(results) + 1 - i].chunk.document_id,
         chunk_index |-> results[Len(results) + 1 - i].chunk.chunk_index,
         similarity_score |-> results[Len(results) + 1 - i].score,
         content_preview |-> ContentPreview(results[Len(results) + 1 - i].chunk.content)]]

\* The source list retrieve_context builds: one entry per search result,
\* in the order of the results.
SourcesOf(results) ==
    [i \in 1..Len(results) |->
        [document_id |-> results[i].chunk.document_id,
         chunk_index |-> results[i].chunk.chunk_index,
         similarity_score |-> results[i].score,
         content_preview |-> ContentPreview(results[i].chunk.content)]]

\* The context string retrieve_context builds: the labelled blocks joined
\* by blank lines (the empty string exactly when there is no block).
ContextOf(results) ==
    [i \in 1..Len(results) |->
        [document_id |-> results[i].chunk.document_id,
         section |-> results[i].chunk.chunk_index,
         content |-> results[i].chunk.content]]

\* RAGPipeline.retrieve_context: the possible (context, sources) pairs.
retrieve_context(query, top_k) ==
    {[context |-> ContextOf(r), sources |-> SourcesOf(r)] :
        r \in vector_search(chunks, EmbedQuery(query), top_k, DefaultThreshold)}

\* -------------------------------------------------------- generate_answer
\* A mutant of CacheHitResult: the stored bundle is returned as it was
\* stored, timing included.
CacheHitResultStale(cached_result, elapsed) ==
    [JsonLoads(cached_result) EXCEPT !.cached = TRUE]

\* Lines 155-157: the stored bundle, marked cached and re-timed.
CacheHitResult(cached_result, elapsed) ==
    [JsonLoads(cached_result) EXCEPT !.cached = TRUE, !.response_time = elapsed]

\* A mutant of UsesCache: the lookup ignores cache_enabled.
UsesCacheAlways(use_cache) == use_cache

\* Line 151: if use_cache and self.cache_enabled
UsesCache(use_cache) == use_cache /\ cache_enabled

\* A mutant of ContextIsEmpty: the short-circuit never fires.
ContextNeverEmpty(context) == FALSE

\* A mutant of ContextIsEmpty: the test of line 163 inverted.
ContextIsEmptyNegated(context) == Len(context) # 0

\* Line 163: if not context
ContextIsEmpty(context) == Len(context) = 0

\* The fallback bundle of lines 164-169.
NotFoundResult(elapsed) ==
    [answer |-> NotFoundAnswer, sources |-> << >>, response_time |-> elapsed, cached |-> FALSE]

\* A mutant of AnswerResult: the fresh bundle is flagged as cached.
AnswerResultCached(answer, sources, response_time) ==
    [answer |-> Strip(answer), sources |-> sources, response_time |-> response_time,
     cached |-> TRUE]

\* The bundle of lines 176-181.
AnswerResult(answer, sources, response_time) ==
    [answer |-> Strip(answer), sources |-> sources, response_time |-> response_time,
     cached |-> FALSE]

\* A mutant of ChatEntry: the row is filed under the default session.
ChatEntryDefaultSession(session_id, query, result) ==
    [session_id |-> "default", query |-> query, response |-> result.answer,
     sources |-> JsonDumps(result.sources), response_time |-> result.response_time]

\* The ChatHistory row of lines 184-190.
ChatEntry(session_id, query, result) ==
    [session_id |-> session_id, query |-> query, response |-> result.answer,
     sources |-> JsonDumps(result.sources), response_time |-> result.response_time]

\* The documents whose delete_document request has returned its success message.
DeletedDocs == {ds[h].doc : h \in {x \in DOMAIN ds : ds[x].kind = "delete" /\ ds[x].pc = "done" /\ ds[x].status = "ok"}}

\* A mutant of Failed: the failure is swallowed and the call goes on to
\* its writes with an empty answer.
FailedContinues(q, why) ==
    [qs[q] EXCEPT !.pc = "history", !.status = "error", !.error = why,
                  !.result = [answer |-> << >>, sources |-> << >>, response_time |-> 0,
                              cached |-> FALSE]]

\* query_documents, lines 203-204: an exception raised anywhere in
\* generate_answer ends the request with HTTP 500 and no bundle.
Failed(q, why) ==
    [qs[q] EXCEPT !.pc = "done", !.status = "error", !.error = why, !.sources = << >>,
                  !.result = NoResult]

\* POST /api/query arrives with a top_k among ks: query_documents passes
\* the query and the session id on (lines 195-199), generate_answer starts
\* and reads the clock.
Arrive(q, ks) ==
    /\ qs[q].pc = "idle"
    /\ \A p \in DOMAIN qs : p < q => qs[p].pc # "idle"
    /\ \E text \in QueryTexts, k \in ks :
         qs' = [qs EXCEPT ![q] =
                  [@ EXCEPT !.pc = IF UsesCache(DefaultUseCache) THEN "check" ELSE "retrieve",
                            !.query = text, !.use_cache = DefaultUseCache, !.top_k = k,
                            !.start_time = now,
                            !.started_after = {p \in DOMAIN qs : qs[p].pc = "done"}]]
    /\ UNCHANGED <<storeVars, pipeVars, now, ds, ups, harnessVars>>

\* A request that leaves top_k at the default of QueryRequest (line 49).
QStart(q) == Arrive(q, {DefaultTopK})

\* The values a request names for top_k.
RequestTopKs == 1..MaxTopK

\* A request that names its top_k.
QStartTopK(q) == Arrive(q, RequestTopKs)

\* A mutant of CacheHit: the hit does not return and the call goes on to
\* retrieval.
CacheHitFallsThrough(q, cached_result) == [qs[q] EXCEPT !.pc = "retrieve"]

\* Lines 154-158: on a hit the call returns the stored bundle.
CacheHit(q, cached_result) ==
    [qs[q] EXCEPT !.pc = "done", !.status = "ok",
                  !.result = CacheHitResult(cached_result, now - qs[q].start_time),
                  !.deleted_before = DeletedDocs]

\* Lines 152-158: the cache lookup; a hit returns.
QCacheGet(q) ==
    /\ qs[q].pc = "check"
    /\ \E ok \in BOOLEAN :
         IF ~ok THEN qs' = [qs EXCEPT ![q] = Failed(q, "cache")]
         ELSE LET got == RedisGet(get_cache_key(qs[q].query)) IN
              IF got.found
              THEN qs' = [qs EXCEPT ![q] = CacheHit(q, got.value)]
              ELSE qs' = [qs EXCEPT ![q] = [@ EXCEPT !.pc = "retrieve"]]
    /\ UNCHANGED <<storeVars, pipeVars, now, ds, ups, harnessVars>>

\* Lines 161-169: embed the query, search, build context and sources; with
\* no context the fallback bundle is returned.
QRetrieve(q) ==
    /\ qs[q].pc = "retrieve"
    /\ \E ok \in BOOLEAN :
         IF ~ok THEN qs' = [qs EXCEPT ![q] = Failed(q, "embedding")]
         ELSE \E r \in retrieve_context(qs[q].query, DefaultTopK) :
                IF ContextIsEmpty(r.context)
                THEN qs' = [qs EXCEPT ![q] =
                              [@ EXCEPT !.pc = "done", !.status = "ok",
                                        !.result = NotFoundResult(now - qs[q].start_time)]]
                ELSE qs' = [qs EXCEPT ![q] = [@ EXCEPT !.pc = "generate", !.sources = r.sources]]
    /\ UNCHANGED <<storeVars, pipeVars, now, ds, ups, harnessVars>>

\* Lines 172-181: the completion call, the elapsed time and the bundle.
QGenerate(q) ==
    /\ qs[q].pc = "generate"
    /\ \E ok \in BOOLEAN :
         IF ~ok THEN qs' = [qs EXCEPT ![q] = Failed(q, "completion")]
         ELSE \E answer \in RawAnswers :
                qs' = [qs EXCEPT ![q] =
                         [@ EXCEPT !.pc = "history",
                                   !.result = AnswerResult(answer, qs[q].sources,
                                                           now - qs[q].start_time)]]
    /\ UNCHANGED <<storeVars, pipeVars, now, ds, ups, harnessVars>>

\* Lines 184-192: the history row is added and committed.  The request's
\* session_id is read here for the first time, so it is drawn here.
QHistory(q) ==
    /\ qs[q].pc = "history"
    /\ \E ok \in BOOLEAN :
         IF ~ok
         THEN /\ qs' = [qs EXCEPT ![q] = Failed(q, "database")]
              /\ history' = history
         ELSE \E sid \in SessionIds :
                /\ history' = Append(history, ChatEntry(sid, qs[q].query, qs[q].result))
                /\ qs' = [qs EXCEPT ![q] =
                            IF cache_enabled THEN [@ EXCEPT !.pc = "store", !.session_id = sid]
                            ELSE [@ EXCEPT !.pc = "done", !.status = "ok", !.session_id = sid]]
    /\ UNCHANGED <<docs, chunks, cache, files, next_id, pipeVars, now, ds, ups, harnessVars>>

\* What the entries written by other requests undergo when request q
\* overwrites `key`.
Overwrites(q, key) ==
    [p \in DOMAIN qs |->
        IF /\ p # q
           /\ key \in DOMAIN cache
           /\ cache[key].writer = p
        THEN [qs[p] EXCEPT !.entry_events = @ \cup {"overwritten"}]
        ELSE qs[p]]

\* Lines 195-203: the bundle is written to the cache and returned.
QCacheStore(q) ==
    /\ qs[q].pc = "store"
    /\ \E ok \in BOOLEAN :
         IF ~ok
         THEN /\ qs' = [qs EXCEPT ![q] = Failed(q, "cache")]
              /\ cache' = cache
         ELSE /\ cache' = RedisSetex(get_cache_key(qs[q].query), CacheTTL,
                                     JsonDumps(qs[q].result), q)
              /\ qs' = [Overwrites(q, get_cache_key(qs[q].query)) EXCEPT ![q] =
                          [@ EXCEPT !.pc = "done", !.status = "ok", !.wrote = TRUE]]
    /\ UNCHANGED <<docs, chunks, history, files, next_id, pipeVars, now, ds, ups, harnessVars>>

\* -------------------------------------------- delete_document, clear_cache
IdleAdmin == [pc |-> "idle", kind |-> "", doc |-> 0, del_rows |-> {}, keys |-> {}, status |-> ""]

\* Ghost bookkeeping: a clear_cache command ran after these requests wrote
\* their cache entry.
Cleared == [p \in DOMAIN qs |-> IF qs[p].wrote THEN [qs[p] EXCEPT !.entry_events = @ \cup {"cleared"}] ELSE qs[p]]

\* A mutant of DocumentFound: the lookup is taken to have found a row.
DocumentFoundAlways(d) == TRUE

\* Lines 232-233 and 250-251: db.query(Document).filter(id).first() gave a row.
DocumentFound(d) == d \in DOMAIN docs

\* GET /api/documents/{id} arrives (lines 229-244): the row is looked up
\* and returned, or 404 is answered.
GetDocument(h) ==
    /\ ds[h].pc = "idle"
    /\ \A x \in DOMAIN ds : x < h => ds[x].pc # "idle"
    /\ \E d \in 1..next_id.doc :
         ds' = [ds EXCEPT ![h] =
                  [@ EXCEPT !.pc = "done", !.kind = "get", !.doc = d,
                            !.status = IF DocumentFound(d) THEN "ok" ELSE "404"]]
    /\ UNCHANGED <<storeVars, pipeVars, now, qs, ups, harnessVars>>

\* DELETE /api/documents/{id} arrives, for an id the store has issued or
\* the next one: line 250 looks the document up, lines 251-252 answer 404
\* when there is none.
DeleteStart(h) ==
    /\ ds[h].pc = "idle"
    /\ \A x \in DOMAIN ds : x < h => ds[x].pc # "idle"
    /\ \E d \in 1..next_id.doc :
         ds' = [ds EXCEPT ![h] =
                  IF DocumentFound(d)
                  THEN [@ EXCEPT !.pc = "delchunks", !.kind = "delete", !.doc = d]
                  ELSE [@ EXCEPT !.pc = "done", !.kind = "delete", !.doc = d, !.status = "404"]]
    /\ UNCHANGED <<storeVars, pipeVars, now, qs, ups, harnessVars>>

\* Line 255: the bulk DELETE of the document's chunk rows, as the statement
\* sees the table; it takes effect with the commit.
DeleteChunks(h) ==
    /\ ds[h].pc = "delchunks"
    /\ ds' = [ds EXCEPT ![h] =
                [@ EXCEPT !.pc = "commit",
                          !.del_rows = {c \in chunks : c.document_id = ds[h].doc}]]
    /\ UNCHANGED <<storeVars, pipeVars, now, qs, ups, harnessVars>>

\* Lines 258-259: the document row is deleted and the transaction commits.
DeleteCommit(h) ==
    /\ ds[h].pc = "commit"
    /\ docs' = [d \in DOMAIN docs \ {ds[h].doc} |-> docs[d]]
    /\ chunks' = chunks \ ds[h].del_rows
    /\ ds' = [ds EXCEPT ![h] =
                IF cache_enabled THEN [@ EXCEPT !.pc = "keys", !.del_rows = {}]
                ELSE [@ EXCEPT !.pc = "done", !.del_rows = {}, !.status = "ok"]]
    /\ UNCHANGED <<history, cache, files, next_id, pipeVars, now, qs, ups, harnessVars>>

\* POST /api/cache/clear arrives (lines 309-313).
ClearStart(h) ==
    /\ ds[h].pc = "idle"
    /\ \A x \in DOMAIN ds : x < h => ds[x].pc # "idle"
    /\ ds' = [ds EXCEPT ![h] =
                IF cache_enabled THEN [@ EXCEPT !.pc = "keys", !.kind = "clear"]
                ELSE [@ EXCEPT !.pc = "done", !.kind = "clear", !.status = "ok"]]
    /\ UNCHANGED <<storeVars, pipeVars, now, qs, ups, harnessVars>>

\* clear_cache, line 213: KEYS rag:query:*
ClearKeys(h) ==
    /\ ds[h].pc = "keys"
    /\ \E ok \in BOOLEAN :
         IF ~ok
         THEN /\ ds' = [ds EXCEPT ![h] = [@ EXCEPT !.pc = "done", !.status = "error"]]
              /\ qs' = qs
         ELSE /\ ds' = [ds EXCEPT ![h] =
                          IF RedisKeys("rag:query:") = {}
                          THEN [@ EXCEPT !.pc = "done", !.status = "ok"]
                          ELSE [@ EXCEPT !.pc = "del", !.keys = RedisKeys("rag:query:")]]
              /\ qs' = Cleared
    /\ UNCHANGED <<storeVars, pipeVars, now, ups, harnessVars>>

\* clear_cache, lines 214-215: DEL of the keys listed.
ClearDelete(h) ==
    /\ ds[h].pc = "del"
    /\ \E ok \in BOOLEAN :
         IF ~ok
         THEN /\ ds' = [ds EXCEPT ![h] = [@ EXCEPT !.pc = "done", !.keys = {}, !.status = "error"]]
              /\ UNCHANGED <<cache, qs>>
         ELSE /\ cache' = RedisDelete(ds[h].keys)
              /\ ds' = [ds EXCEPT ![h] = [@ EXCEPT !.pc = "done", !.keys = {}, !.status = "ok"]]
              /\ qs' = Cleared
    /\ UNCHANGED <<docs, chunks, history, files, next_id, pipeVars, now, ups, harnessVars>>

\* ------------------------------------------------------ document_processor
\* The names uploads carry: Path(filename).suffix is the suffix field.
FileNames ==
    {[stem |-> "a", suffix |-> ".txt"], [stem |-> "b", suffix |-> ".TXT"],
     [stem |-> "x", suffix |-> ".bin"]}

\* The bodies uploads carry: a long text, a text of one chunk, an empty
\* file, a text with whitespace at both ends, and whitespace alone.  The
\* body that ends in whitespace is the longest, so that no staged file
\* holds whitespace between two other characters.
Bodies ==
    {Slice("p", 0, 1150), Slice("r", 0, 1000), << >>,
     Join(Blank(2), Join(Slice("w", 2, 1148), Blank(2))), Blank(4)}

\* str.lower() on a suffix.
LowerSuffix(x) == IF x = ".PDF" THEN ".pdf" ELSE IF x = ".TXT" THEN ".txt" ELSE x

\* A mutant of get_file_type: an unlisted suffix is taken for plain text.
get_file_type_lenient(filename) ==
    IF LowerSuffix(filename.suffix) = ".pdf" THEN "pdf" ELSE "txt"

\* DocumentProcessor.get_file_type: the type of the lowered suffix.
get_file_type(filename) ==
    LET extension == LowerSuffix(filename.suffix) IN
    IF extension = ".pdf" THEN "pdf"
    ELSE IF extension \in {".docx", ".doc"} THEN "docx"
    ELSE IF extension \in {".xlsx", ".xls"} THEN "xlsx"
    ELSE IF extension = ".txt" THEN "txt"
    ELSE "unknown"

\* DocumentProcessor._extract_from_txt, lines 79-87: the file is read and
\* the text stripped.
extract_from_txt(file) == StripText(file)

\* DocumentProcessor.extract_text, lines 22-33, for the plain-text type
\* (the other types are parsed by their libraries from binary formats).
extract_text(file, file_type) == CASE file_type = "txt" -> extract_from_txt(file)

\* A mutant of NumChunks: the splitter yields no chunk.
NumChunksNone(len) == 0

\* RecursiveCharacterTextSplitter.split_text on a text without separators:
\* windows of chunk_size characters, each starting chunk_overlap characters
\* before the end of the one before; no window for the empty text.
NumChunks(len) ==
    IF len = 0 THEN 0
    ELSE IF len <= ChunkSize THEN 1
    ELSE 1 + ((len - ChunkSize) + (ChunkSize - ChunkOverlap) - 1) \div (ChunkSize - ChunkOverlap)

split_text(text) ==
    [i \in 1..NumChunks(TextLen(text)) |->
        Prefix(Drop(text, (i - 1) * (ChunkSize - ChunkOverlap)), ChunkSize)]

\* DocumentProcessor.chunk_text: the chunks with their indices, in order.
chunk_text(text) ==
    [i \in 1..Len(split_text(text)) |-> [content |-> split_text(text)[i], chunk_index |-> i - 1]]

\* OpenAIEmbeddings.embed_documents on one chunk text: the direction the
\* embedding model gives it (a fixed function of the text).
EmbedChunk(content) ==
    IF content[1].tag = "p" THEN (IF content[1].off = 0 THEN 0 ELSE 1)
    ELSE IF content[1].tag = "r" THEN 7
    ELSE 3

\* ------------------------------------------ upload_document and its task
IdleUpload ==
    [pc |-> "idle", filename |-> [stem |-> "", suffix |-> ""], file_type |-> "",
     doc_id |-> 0, text |-> Slice("", 0, 0), status |-> "", cause |-> "",
     body |-> << >>, detached |-> FALSE, seen |-> FALSE]

\* A mutant of ChunkRecords: enumerate counts from one.
ChunkRecordsFromOne(doc_id, text, first_id) ==
    {[id |-> first_id + i - 1, document_id |-> doc_id, chunk_index |-> i,
      content |-> chunk_text(text)[i].content,
      embedding |-> EmbedChunk(chunk_text(text)[i].content)] : i \in 1..Len(chunk_text(text))}

\* process_document_background, lines 157-165: the rows added to the
\* session, numbered by enumerate.
ChunkRecords(doc_id, text, first_id) ==
    {[id |-> first_id + i - 1, document_id |-> doc_id, chunk_index |-> i - 1,
      content |-> chunk_text(text)[i].content,
      embedding |-> EmbedChunk(chunk_text(text)[i].content)] : i \in 1..Len(chunk_text(text))}

Raise(u, why) == [ups[u] EXCEPT !.pc = "except", !.cause = why]

\* An exception that leaves process_document_background: one raised inside
\* the except block of lines 178-183.
Escape(u, why) == [ups[u] EXCEPT !.pc = "done", !.status = "escaped", !.cause = why]

\* The handles on the file `name` that uploads hold open for writing lose
\* the directory entry when the file is removed: what they write no longer
\* reaches a file of that name.
Detach(name) ==
    [x \in DOMAIN ups |->
        IF ups[x].pc = "copy" /\ ups[x].filename = name
        THEN [ups[x] EXCEPT !.detached = TRUE]
        ELSE ups[x]]

\* An exception in upload_document, lines 139-140: HTTP 500, nothing
\* further is done for the request.
UploadFailed(u, why) == [ups[u] EXCEPT !.pc = "done", !.status = "error", !.cause = why]

\* POST /api/documents/upload arrives: lines 98-100 check the type, line
\* 104 opens UPLOAD_DIR / filename for writing, which creates the file or
\* empties the one that is there.
UploadStart(u) ==
    /\ ups[u].pc = "idle"
    /\ \A x \in DOMAIN ups : x < u => ups[x].pc # "idle"
    /\ \E name \in FileNames, body \in Bodies :
         IF get_file_type(name) = "unknown"
         THEN /\ ups' = [ups EXCEPT ![u] = [@ EXCEPT !.pc = "done", !.filename = name,
                                                       !.file_type = "unknown",
                                                       !.status = "rejected"]]
              /\ files' = files
         ELSE /\ ups' = [ups EXCEPT ![u] = [@ EXCEPT !.pc = "copy", !.filename = name,
                                                       !.file_type = get_file_type(name),
                                                       !.body = body]]
              /\ files' = [f \in DOMAIN files \cup {name} |-> IF f = name THEN << >> ELSE files[f]]
    /\ UNCHANGED <<docs, chunks, history, cache, next_id, pipeVars, now, qs, ds, harnessVars>>

\* Line 105 and the end of the with block: the body is written through the
\* handle, from the start of the file.
UploadCopy(u) ==
    /\ ups[u].pc = "copy"
    /\ files' = IF ups[u].detached THEN files
                ELSE [files EXCEPT ![ups[u].filename] = WriteAtStart(@, ups[u].body)]
    /\ ups' = [ups EXCEPT ![u] = [@ EXCEPT !.pc = "stat", !.detached = FALSE]]
    /\ UNCHANGED <<docs, chunks, history, cache, next_id, pipeVars, now, qs, ds, harnessVars>>

\* Line 107: file_path.stat(); it raises when there is no file of that name.
UploadStat(u) ==
    /\ ups[u].pc = "stat"
    /\ ups' = [ups EXCEPT ![u] =
                 IF ups[u].filename \in DOMAIN files THEN [@ EXCEPT !.pc = "insert"]
                 ELSE UploadFailed(u, "stat")]
    /\ UNCHANGED <<storeVars, pipeVars, now, qs, ds, harnessVars>>

\* Lines 110-118: the Document row is added and committed.
UploadInsert(u) ==
    /\ ups[u].pc = "insert"
    /\ docs' = [d \in DOMAIN docs \cup {next_id.doc} |->
                  IF d = next_id.doc
                  THEN [filename |-> ups[u].filename, file_type |-> ups[u].file_type,
                        content |-> Slice("", 0, 0), processed |-> FALSE]
                  ELSE docs[d]]
    /\ next_id' = [next_id EXCEPT !.doc = @ + 1]
    /\ ups' = [ups EXCEPT ![u] = [@ EXCEPT !.pc = "refresh", !.doc_id = next_id.doc]]
    /\ UNCHANGED <<chunks, history, cache, files, pipeVars, now, qs, ds, harnessVars>>

\* Lines 119-127: db.refresh(doc) reads the row back and raises when it is
\* gone; otherwise the task is scheduled.
UploadRefresh(u) ==
    /\ ups[u].pc = "refresh"
    /\ ups' = [ups EXCEPT ![u] =
                 IF ups[u].doc_id \in DOMAIN docs THEN [@ EXCEPT !.pc = "extract"]
                 ELSE UploadFailed(u, "refresh")]
    /\ UNCHANGED <<storeVars, pipeVars, now, qs, ds, harnessVars>>

\* Lines 147-154: the staged file is read and parsed, the text chunked and
\* the chunks embedded; any of the three may fail.
ProcessExtract(u) ==
    /\ ups[u].pc = "extract"
    /\ \E ok \in BOOLEAN :
         IF ups[u].filename \notin DOMAIN files THEN ups' = [ups EXCEPT ![u] = Raise(u, "nofile")]
         ELSE IF ~ok THEN ups' = [ups EXCEPT ![u] = Raise(u, "ingest")]
         ELSE ups' = [ups EXCEPT ![u] =
                        [@ EXCEPT !.pc = "select",
                                  !.text = extract_text(files[ups[u].filename], ups[u].file_type)]]
    /\ UNCHANGED <<storeVars, pipeVars, now, qs, ds, harnessVars>>

\* Lines 168-171: the Document row is read; without one, line 169 raises.
ProcessSelect(u) ==
    /\ ups[u].pc = "select"
    /\ ups' = [ups EXCEPT ![u] =
                 IF ups[u].doc_id \in DOMAIN docs THEN [@ EXCEPT !.pc = "commit"]
                 ELSE Raise(u, "nodoc")]
    /\ UNCHANGED <<storeVars, pipeVars, now, qs, ds, harnessVars>>

\* Line 173: the chunk rows are inserted and the Document row updated in
\* one transaction.  A flush that fails (the store rejects a statement,
\* or the row to update is gone) rolls the transaction back and leaves the
\* session unusable until rollback(), which the except block does not
\* call: its query at line 180 raises and the exception leaves the task.
\* A failure of the COMMIT itself leaves a session the except block can
\* use.
ProcessCommit(u) ==
    /\ ups[u].pc = "commit"
    /\ \E ok \in BOOLEAN, flushed \in BOOLEAN :
         IF ups[u].doc_id \notin DOMAIN docs
         THEN /\ ups' = [ups EXCEPT ![u] = Escape(u, "stale")]
              /\ UNCHANGED <<docs, chunks, next_id>>
         ELSE IF ~ok
         THEN /\ ups' = [ups EXCEPT ![u] = IF flushed THEN Raise(u, "commit")
                                           ELSE Escape(u, "commit")]
              /\ UNCHANGED <<docs, chunks, next_id>>
         ELSE /\ chunks' = chunks \cup ChunkRecords(ups[u].doc_id, ups[u].text, next_id.chunk)
              /\ next_id' = [next_id EXCEPT !.chunk = @ + Len(chunk_text(ups[u].text))]
              /\ docs' = [docs EXCEPT ![ups[u].doc_id] =
                            [@ EXCEPT !.content = Prefix(ups[u].text, ContentPreviewLen),
                                      !.processed = TRUE]]
              /\ ups' = [ups EXCEPT ![u] = [@ EXCEPT !.pc = "cleanup"]]
    /\ UNCHANGED <<history, cache, files, pipeVars, now, qs, ds, harnessVars>>

\* Line 176: os.remove(file_path); it raises when the file is gone.
ProcessCleanup(u) ==
    /\ ups[u].pc = "cleanup"
    /\ IF ups[u].filename \in DOMAIN files
       THEN /\ files' = [f \in DOMAIN files \ {ups[u].filename} |-> files[f]]
            /\ ups' = [Detach(ups[u].filename) EXCEPT ![u] =
                         [ups[u] EXCEPT !.pc = "done", !.status = "processed"]]
       ELSE /\ files' = files
            /\ ups' = [ups EXCEPT ![u] = Raise(u, "remove")]
    /\ UNCHANGED <<docs, chunks, history, cache, next_id, pipeVars, now, qs, ds, harnessVars>>

\* Lines 178-180: the handler of any failure reads the Document row again;
\* without a row it does nothing more.  Its calls on the store are not
\* guarded.
ProcessExcept(u) ==
    /\ ups[u].pc = "except"
    /\ \E ok \in BOOLEAN :
         ups' = [ups EXCEPT ![u] =
                   IF ~ok THEN Escape(u, ups[u].cause)
                   ELSE IF ups[u].doc_id \in DOMAIN docs
                   THEN [@ EXCEPT !.pc = "reset", !.seen = docs[ups[u].doc_id].processed]
                   ELSE [@ EXCEPT !.pc = "done", !.status = "failed"]]
    /\ UNCHANGED <<storeVars, pipeVars, now, qs, ds, harnessVars>>

\* Lines 181-183: processed is set to False and the session commits.  When
\* the row was read with processed already False nothing is written; else
\* the UPDATE is sent, and it raises when the row is gone.
ProcessExceptCommit(u) ==
    /\ ups[u].pc = "reset"
    /\ \E ok \in BOOLEAN :
         IF ~ok \/ (ups[u].seen /\ ups[u].doc_id \notin DOMAIN docs)
         THEN /\ docs' = docs
              /\ ups' = [ups EXCEPT ![u] = [Escape(u, ups[u].cause) EXCEPT !.seen = FALSE]]
         ELSE /\ docs' = IF ups[u].seen
                         THEN [docs EXCEPT ![ups[u].doc_id] = [@ EXCEPT !.processed = FALSE]]
                         ELSE docs
              /\ ups' = [ups EXCEPT ![u] = [@ EXCEPT !.pc = "done", !.status = "failed",
                                                     !.seen = FALSE]]
    /\ UNCHANGED <<chunks, history, cache, files, next_id, pipeVars, now, qs, ds, harnessVars>>

\* ------------------------------------------------------------------ clock
\* Redis drops an entry when its time to live has run out.
ExpireAt(t) ==
    [k \in {x \in DOMAIN cache : cache[x].expire_at = -1 \/ cache[x].expire_at > t} |-> cache[k]]

Expired(t) ==
    [p \in DOMAIN qs |->
        IF \E k \in DOMAIN cache : cache[k].writer = p /\ cache[k].expire_at # -1 /\ cache[k].expire_at <= t
        THEN [qs[p] EXCEPT !.entry_events = @ \cup {"expired"}]
        ELSE qs[p]]

\* Time passes: a second, or a whole time-to-live.
Advance(d) ==
    /\ \/ d = 1 /\ (now % CacheTTL) < MaxTicks
       \/ d = CacheTTL /\ (now \div CacheTTL) < MaxWaits
    /\ now' = now + d
    /\ cache' = ExpireAt(now + d)
    /\ qs' = Expired(now + d)
    /\ UNCHANGED <<docs, chunks, history, files, next_id, pipeVars, ds, ups, harnessVars>>

\* ------------------------------------------------------------ construction
\* RAGPipeline.__init__, lines 28-34: caching is on exactly when the ping
\* of the cache backend succeeded.
PipelineInit(reachable) == reachable

\* A key of another application sharing the Redis store.
ForeignKey == [prefix |-> "session:", hash |-> Md5Hex(<<"b">>)]

InitialCache == [k \in {ForeignKey} |-> [value |-> JsonDumps("other"), expire_at |-> -1, writer |-> 0]]

\* A corpus of two processed documents: the index the query lane starts from.
CorpusDocs ==
    [d \in {1, 2} |->
        [filename |-> IF d = 1 THEN "a.txt" ELSE "b.txt", file_type |-> "txt",
         content |-> Slice(IF d = 1 THEN "p" ELSE "r", 0, ContentPreviewLen), processed |-> TRUE]]

CorpusChunks ==
    {[id |-> 1, document_id |-> 1, chunk_index |-> 0, content |-> Slice("p", 0, 1000), embedding |-> 0],
     [id |-> 2, document_id |-> 1, chunk_index |-> 1, content |-> Slice("p", 800, 350), embedding |-> 1],
     [id |-> 3, document_id |-> 2, chunk_index |-> 0, content |-> Slice("r", 0, 1000), embedding |-> 7]}

HarnessIdle == /\ kin = [phase |-> "off"]
               /\ sin = [phase |-> "off"]

\* The query lane after construction: nothing uploaded yet or the corpus
\* indexed, the cache holding nothing of the pipeline's, nq query requests
\* and na delete / clear requests to come.
QueryLane(nq, na) ==
    /\ \/ docs = CorpusDocs /\ chunks = CorpusChunks
       \/ docs = << >> /\ chunks = {}
    /\ history = << >>
    /\ cache = InitialCache
    /\ files = << >>
    /\ next_id = [doc |-> 3, chunk |-> 4]
    /\ ping_ok \in BOOLEAN
    /\ cache_enabled = PipelineInit(ping_ok)
    /\ now = 0
    /\ qs = [q \in 1..nq |-> IdleQuery]
    /\ ds = [h \in 1..na |-> IdleAdmin]
    /\ ups = << >>
    /\ HarnessIdle

Init == QueryLane(MaxQueries, MaxAdmin)

NextQuery ==
    \/ \E q \in DOMAIN qs : QStart(q)
    \/ \E q \in DOMAIN qs : QCacheGet(q)
    \/ \E q \in DOMAIN qs : QRetrieve(q)
    \/ \E q \in DOMAIN qs : QGenerate(q)
    \/ \E q \in DOMAIN qs : QHistory(q)
    \/ \E q \in DOMAIN qs : QCacheStore(q)

NextAdmin ==
    \/ \E h \in DOMAIN ds : DeleteStart(h)
    \/ \E h \in DOMAIN ds : DeleteChunks(h)
    \/ \E h \in DOMAIN ds : DeleteCommit(h)
    \/ \E h \in DOMAIN ds : ClearStart(h)
    \/ \E h \in DOMAIN ds : ClearKeys(h)
    \/ \E h \in DOMAIN ds : ClearDelete(h)
    \/ \E h \in DOMAIN ds : GetDocument(h)

Next == NextQuery \/ NextAdmin

NextTimed ==
    \/ NextQuery
    \/ \E d \in {1, CacheTTL} : Advance(d)

Spec == Init /\ [][Next]_vars

\* The ingest lane: an empty store, nu uploads with their background tasks
\* and na delete_document requests to come.
IngestLane(nu, na) ==
    /\ docs = << >>
    /\ chunks = {}
    /\ history = << >>
    /\ cache = InitialCache
    /\ files = << >>
    /\ next_id = [doc |-> 1, chunk |-> 1]
    /\ ping_ok \in BOOLEAN
    /\ cache_enabled = PipelineInit(ping_ok)
    /\ now = 0
    /\ qs = << >>
    /\ ds = [h \in 1..na |-> IdleAdmin]
    /\ ups = [u \in 1..nu |-> IdleUpload]
    /\ HarnessIdle

InitIngest == IngestLane(MaxUploads, MaxAdmin)

NextUpload ==
    \/ \E u \in DOMAIN ups : UploadStart(u)
    \/ \E u \in DOMAIN ups : UploadCopy(u)
    \/ \E u \in DOMAIN ups : UploadStat(u)
    \/ \E u \in DOMAIN ups : UploadInsert(u)
    \/ \E u \in DOMAIN ups : UploadRefresh(u)
    \/ \E u \in DOMAIN ups : ProcessExtract(u)
    \/ \E u \in DOMAIN ups : ProcessSelect(u)
    \/ \E u \in DOMAIN ups : ProcessCommit(u)
    \/ \E u \in DOMAIN ups : ProcessCleanup(u)
    \/ \E u \in DOMAIN ups : ProcessExcept(u)
    \/ \E u \in DOMAIN ups : ProcessExceptCommit(u)

\* The upload lane: uploads and their background tasks alone, every task
\* scheduled being run to its end.
InitUpload == IngestLane(MaxUploads, 0)

SpecUpload == InitUpload /\ [][NextUpload]_vars /\ WF_vars(NextUpload)

NextIngest ==
    \/ \E u \in DOMAIN ups : UploadStart(u)
    \/ \E u \in DOMAIN ups : UploadCopy(u)
    \/ \E u \in DOMAIN ups : UploadStat(u)
    \/ \E u \in DOMAIN ups : UploadInsert(u)
    \/ \E u \in DOMAIN ups : UploadRefresh(u)
    \/ \E u \in DOMAIN ups : ProcessExtract(u)
    \/ \E u \in DOMAIN ups : ProcessSelect(u)
    \/ \E u \in DOMAIN ups : ProcessCommit(u)
    \/ \E u \in DOMAIN ups : ProcessCleanup(u)
    \/ \E u \in DOMAIN ups : ProcessExcept(u)
    \/ \E u \in DOMAIN ups : ProcessExceptCommit(u)
    \/ \E h \in DOMAIN ds : DeleteStart(h)
    \/ \E h \in DOMAIN ds : DeleteChunks(h)
    \/ \E h \in DOMAIN ds : DeleteCommit(h)
    \/ \E h \in DOMAIN ds : ClearKeys(h)

SpecIngest == InitIngest /\ [][NextIngest]_vars

\* The query lane with the clock running and no delete / clear request.
InitTimed == QueryLane(MaxQueries, 0)

SpecTimed == InitTimed /\ [][NextTimed]_vars

\* The query lane with requests that name their top_k.
InitTopK == QueryLane(MaxQueries, 0)

NextTopK ==
    \/ \E q \in DOMAIN qs : QStartTopK(q)
    \/ \E q \in DOMAIN qs : QCacheGet(q)
    \/ \E q \in DOMAIN qs : QRetrieve(q)
    \/ \E q \in DOMAIN qs : QGenerate(q)
    \/ \E q \in DOMAIN qs : QHistory(q)
    \/ \E q \in DOMAIN qs : QCacheStore(q)

SpecTopK == InitTopK /\ [][NextTopK]_vars

\* The query lane with one more query request, so that two can overlap
\* before a third starts.
InitOverlap == QueryLane(MaxOverlap, 0)

SpecOverlap == InitOverlap /\ [][NextQuery]_vars

\* ------------------------------------------------- function-level harnesses
\* The stores and handler tables of a system that serves no request.
Quiet ==
    /\ docs = << >>
    /\ chunks = {}
    /\ history = << >>
    /\ cache = InitialCache
    /\ files = << >>
    /\ next_id = [doc |-> 1, chunk |-> 1]
    /\ ping_ok = TRUE
    /\ cache_enabled = PipelineInit(ping_ok)
    /\ now = 0
    /\ qs = << >>
    /\ ds = << >>
    /\ ups = << >>

systemVars == <<docs, chunks, history, cache, cache_enabled, ping_ok, now, qs, ds, ups, files,
                next_id>>

Texts == SeqsUpTo(Alphabet, MaxTextLen)

\* Two query texts; a bundle is put under the key of the first and looked
\* up under the key of the second.
InitKey ==
    /\ Quiet
    /\ kin \in {[phase |-> "put", a |-> x, b |-> y, store |-> {}, hit |-> FALSE] :
                   x \in Texts, y \in Texts}
    /\ sin = [phase |-> "off"]

KeyPut ==
    /\ kin.phase = "put"
    /\ kin' = [kin EXCEPT !.phase = "get", !.store = {get_cache_key(kin.a)}]
    /\ UNCHANGED <<systemVars, sin>>

KeyGet ==
    /\ kin.phase = "get"
    /\ kin' = [kin EXCEPT !.phase = "done", !.hit = get_cache_key(kin.b) \in kin.store]
    /\ UNCHANGED <<systemVars, sin>>

NextKey == KeyPut \/ KeyGet

SpecKey == InitKey /\ [][NextKey]_vars

\* The rows an index is drawn from: the corpus, a second row in the
\* direction of one of its rows, and a row pointing the other way.
SearchPool ==
    CorpusChunks \cup
    {[id |-> 4, document_id |-> 2, chunk_index |-> 1, content |-> Slice("r", 800, 350), embedding |-> 1],
     [id |-> 5, document_id |-> 3, chunk_index |-> 0, content |-> Slice("e", 0, 10), embedding |-> 4]}

\* The similarity floors searched with: below every score, and at and
\* between the scores the directions give.
Floors == {-101, -71, 0, 70, 71, 100}

InitSearch ==
    /\ Quiet
    /\ kin = [phase |-> "off"]
    /\ sin \in {[phase |-> "call", rows |-> r, qv |-> v, top_k |-> k, floor |-> f, result |-> << >>] :
                   r \in SUBSET SearchPool, v \in Dirs, k \in 0..MaxTopK, f \in Floors}

Search ==
    /\ sin.phase = "call"
    /\ \E r \in vector_search(sin.rows, sin.qv, sin.top_k, sin.floor) :
         sin' = [sin EXCEPT !.phase = "done", !.result = r]
    /\ UNCHANGED <<systemVars, kin>>

NextSearch == Search

SpecSearch == InitSearch /\ [][NextSearch]_vars

\* The same search executed twice over one index state.
InitRepeat ==
    /\ Quiet
    /\ kin = [phase |-> "off"]
    /\ sin \in {[phase |-> "call", rows |-> r, qv |-> v, top_k |-> k, floor |-> f,
                  result |-> << >>, again |-> << >>] :
                   r \in SUBSET SearchPool, v \in Dirs, k \in 0..MaxTopK, f \in Floors}

SearchAgain ==
    /\ sin.phase = "done"
    /\ \E r \in vector_search(sin.rows, sin.qv, sin.top_k, sin.floor) :
         sin' = [sin EXCEPT !.phase = "twice", !.again = r]
    /\ UNCHANGED <<systemVars, kin>>

NextRepeat == Search \/ SearchAgain

SpecRepeat == InitRepeat /\ [][NextRepeat]_vars

\* The Document rows the chunk rows of an index belong to.
DocsOf(rows) ==
    [d \in {c.document_id : c \in rows} |->
        [filename |-> [stem |-> "a", suffix |-> ".txt"], file_type |-> "txt",
         content |-> Slice((CHOOSE c \in rows : c.document_id = d).content[1].tag, 0,
                           ContentPreviewLen),
         processed |-> TRUE]]

\* retrieve_context called for a query text and a top_k over an index.
InitRetrieve ==
    /\ chunks \in SUBSET SearchPool
    /\ docs = DocsOf(chunks)
    /\ history = << >>
    /\ cache = InitialCache
    /\ files = << >>
    /\ next_id = [doc |-> 4, chunk |-> 6]
    /\ ping_ok = TRUE
    /\ cache_enabled = PipelineInit(ping_ok)
    /\ now = 0
    /\ qs = << >>
    /\ ds = << >>
    /\ ups = << >>
    /\ kin = [phase |-> "off"]
    /\ sin \in {[phase |-> "call", query |-> text, top_k |-> k, context |-> << >>, sources |-> << >>] :
                   text \in QueryTexts, k \in (1..MaxTopK) \cup {DefaultTopK}}

RetrieveContext ==
    /\ sin.phase = "call"
    /\ \E rc \in retrieve_context(sin.query, sin.top_k) :
         sin' = [sin EXCEPT !.phase = "done", !.context = rc.context, !.sources = rc.sources]
    /\ UNCHANGED <<systemVars, kin>>

NextRetrieve == RetrieveContext

SpecRetrieve == InitRetrieve /\ [][NextRetrieve]_vars

\* ---------------------------------------------------------------- claims
CaseVariants(c, d) == c = d \/ {c, d} = {"a", "A"}

AllSpace(s, lo, hi) == \A i \in lo..hi : s[i] \in {" "}

\* s and t differ only by letter case or by leading/trailing whitespace:
\* each is a run of whitespace, a core and a run of whitespace, and the
\* cores agree character by character up to case.
SameUpToCaseAndMargin(s, t) ==
    \E i1 \in 1..(Len(s) + 1), i2 \in 1..(Len(t) + 1), n \in 0..Min(Len(s), Len(t)) :
        /\ i1 + n - 1 <= Len(s)
        /\ i2 + n - 1 <= Len(t)
        /\ AllSpace(s, 1, i1 - 1) /\ AllSpace(s, i1 + n, Len(s))
        /\ AllSpace(t, 1, i2 - 1) /\ AllSpace(t, i2 + n, Len(t))
        /\ \A k \in 0..(n - 1) : CaseVariants(s[i1 + k], t[i2 + k])

\* C3: two query texts that differ only by letter case or by leading or
\* trailing whitespace get the same cache key, so a bundle stored under the
\* key of one is found by the lookup of the other.
C3_SameKey ==
    (kin.phase # "off" /\ SameUpToCaseAndMargin(kin.a, kin.b)) =>
        /\ get_cache_key(kin.a) = get_cache_key(kin.b)
        /\ kin.phase = "done" => kin.hit

C3_Witness ==
    /\ kin.phase = "done"
    /\ kin.a = <<" ", "A", "b">>
    /\ kin.b = <<"a", "b", " ">>
    /\ kin.hit

\* The true similarity of an index row to the query vector, from the
\* cosine table.
Score(row, qv) == CosTab[((row.embedding - qv + 8) % 8) + 1]

\* C10: vector_search returns at most top_k pairs, each a row of the index
\* with its similarity, every score strictly above the floor, scores
\* non-increasing, no row above the floor that scores higher than a
\* returned one left out, and the empty sequence when no row is above the
\* floor.
C10_SearchContract ==
    sin.phase = "done" =>
        LET r == sin.result
            above == {x \in sin.rows : Score(x, sin.qv) > sin.floor}
            got == {r[i].chunk.id : i \in 1..Len(r)}
        IN  /\ Len(r) <= sin.top_k
            /\ \A i \in 1..Len(r) :
                 /\ \E x \in sin.rows : x.id = r[i].chunk.id /\ r[i].score = Score(x, sin.qv)
                 /\ r[i].score > sin.floor
            /\ \A i, j \in 1..Len(r) : i < j => r[i].score >= r[j].score /\ r[i].chunk.id # r[j].chunk.id
            /\ Len(r) = Min(sin.top_k, Cardinality(above))
            /\ \A x \in above : x.id \notin got => \A i \in 1..Len(r) : r[i].score >= Score(x, sin.qv)
            /\ above = {} => r = << >>

C10_Witness ==
    /\ sin.phase = "done"
    /\ sin.top_k = 2
    /\ Len(sin.result) = 2
    /\ sin.result[1].score > sin.result[2].score
    /\ \E x \in sin.rows : Score(x, sin.qv) > sin.floor /\ \A i \in 1..2 : sin.result[i].chunk.id # x.id
    /\ \E x \in sin.rows : Score(x, sin.qv) = sin.floor

\* The key the pipeline files a query text under: its namespace and the
\* digest of the text lowered and trimmed.
KeyOf(text) == get_cache_key(text)

Bundle(q) == qs[q].result

Answered(q) == qs[q].pc = "done" /\ qs[q].status = "ok"

\* C1: a query answered from the cache returns the stored answer and
\* sources with cached = true and with response_time the time elapsed
\* since its own start, whatever response_time was stored.
C1_HitRetimed ==
    [][\A q \in DOMAIN qs :
         (/\ qs[q].pc = "check"
          /\ qs'[q].pc # "check"
          /\ qs'[q].status # "error"
          /\ KeyOf(qs[q].query) \in DOMAIN cache)
         => /\ qs'[q].pc = "done"
            /\ qs'[q].result.cached = TRUE
            /\ qs'[q].result.response_time = now - qs[q].start_time
            /\ qs'[q].result.answer = cache[KeyOf(qs[q].query)].value.json.answer
            /\ qs'[q].result.sources = cache[KeyOf(qs[q].query)].value.json.sources]_vars

C1_Witness ==
    \E q \in DOMAIN qs :
        /\ Answered(q)
        /\ Bundle(q).cached
        /\ KeyOf(qs[q].query) \in DOMAIN cache
        /\ cache[KeyOf(qs[q].query)].value.json.response_time > Bundle(q).response_time
        /\ Bundle(q).response_time > 0

\* q2 started after q1 had returned the bundle it wrote to the cache, for
\* a text with the same key, and the cache has answered q2.
RoundTrip(q1, q2) ==
    /\ q1 # q2
    /\ Answered(q1) /\ qs[q1].wrote
    /\ Answered(q2)
    /\ q1 \in qs[q2].started_after
    /\ KeyOf(qs[q1].query) = KeyOf(qs[q2].query)

SameAnswer(q1, q2) ==
    /\ Bundle(q2).cached = TRUE
    /\ Bundle(q2).answer = Bundle(q1).answer
    /\ Bundle(q2).sources = Bundle(q1).sources

\* C2 as stated: with no invalidation and no expiry since q1 wrote its
\* entry, q2 returns q1's answer and sources with cached = true.
C2_AsStated ==
    \A q1, q2 \in DOMAIN qs :
        (RoundTrip(q1, q2) /\ qs[q1].entry_events \cap {"cleared", "expired"} = {})
            => SameAnswer(q1, q2)

\* C2, amended: with no invalidation, no expiry and no write of the same
\* key by another query since q1 wrote its entry, q2 returns q1's answer and
\* sources with cached = true.
C2_RoundTrip ==
    \A q1, q2 \in DOMAIN qs :
        (RoundTrip(q1, q2) /\ qs[q1].entry_events = {}) => SameAnswer(q1, q2)

C2_Witness ==
    \E q1, q2 \in DOMAIN qs :
        /\ RoundTrip(q1, q2)
        /\ qs[q1].entry_events = {}
        /\ qs[q1].query # qs[q2].query
        /\ Bundle(q2).cached
        /\ Len(Bundle(q2).sources) = 2

\* The rows of the index above the default floor for a query text.
Relevant(text) == {c \in chunks : Score(c, EmbedQuery(text)) > DefaultThreshold}

\* C4: a query whose search finds no chunk returns the fixed not-found
\* message with no sources and cached = false, and its step leaves the
\* cache and the history as they were.
C4_NotFoundFrame ==
    [][\A q \in DOMAIN qs :
         (/\ qs[q].pc = "retrieve"
          /\ qs'[q].pc # "retrieve"
          /\ qs'[q].status # "error"
          /\ Relevant(qs[q].query) = {})
         => /\ qs'[q].pc = "done"
            /\ qs'[q].result = [answer |-> NotFoundAnswer, sources |-> << >>,
                                response_time |-> now - qs[q].start_time, cached |-> FALSE]
            /\ cache' = cache
            /\ history' = history]_vars

C4_Witness ==
    \E q1, q2 \in DOMAIN qs :
        /\ q1 # q2
        /\ Answered(q1) /\ Answered(q2)
        /\ q1 \in qs[q2].started_after
        /\ qs[q1].query = qs[q2].query
        /\ Bundle(q1).answer = NotFoundAnswer /\ ~Bundle(q1).cached
        /\ Bundle(q2).answer = NotFoundAnswer /\ ~Bundle(q2).cached
        /\ cache_enabled
        /\ chunks = {}
        /\ history = << >>

\* The history row a query files: session id, query, answer, serialized
\* sources, response time.
RowOf(q, bundle) ==
    [session_id |-> qs[q].session_id, query |-> qs[q].query, response |-> bundle.answer,
     sources |-> [json |-> bundle.sources], response_time |-> bundle.response_time]

\* C5: a query that misses the cache and retrieves at least one chunk
\* appends exactly one history record (session id, query, answer,
\* serialized sources, response time), writes the full bundle into the
\* cache under its normalized key with the fixed TTL, and returns the
\* bundle with cached = false.
C5_MissPath ==
    [][\A q \in DOMAIN qs :
         /\ (qs[q].pc = "history" /\ qs'[q].pc # "history" /\ qs'[q].status # "error")
            => /\ history' = Append(history, [RowOf(q, qs[q].result) EXCEPT
                                                !.session_id = qs'[q].session_id])
               /\ qs'[q].session_id \in SessionIds
               /\ qs'[q].result = qs[q].result
               /\ qs'[q].pc = IF cache_enabled THEN "store" ELSE "done"
               /\ cache' = cache
         /\ (qs[q].pc = "store" /\ qs'[q].pc # "store" /\ qs'[q].status # "error")
            => /\ qs'[q].pc = "done"
               /\ qs'[q].result = qs[q].result
               /\ qs'[q].result.cached = FALSE
               /\ qs'[q].result.sources = qs[q].sources
               /\ Len(qs[q].sources) > 0
               /\ DOMAIN cache' = DOMAIN cache \cup {KeyOf(qs[q].query)}
               /\ cache'[KeyOf(qs[q].query)].value = [json |-> qs[q].result]
               /\ cache'[KeyOf(qs[q].query)].expire_at = now + 3600
               /\ \A k \in DOMAIN cache \ {KeyOf(qs[q].query)} : cache'[k] = cache[k]
               /\ history' = history
               /\ \E i \in 1..Len(history) : history[i] = RowOf(q, qs[q].result)
         /\ (qs[q].pc \notin {"idle", "history"} /\ qs'[q] # qs[q] /\ qs'[q].pc # qs[q].pc)
            => history' = history]_vars

C5_Witness ==
    \E q \in DOMAIN qs :
        /\ Answered(q)
        /\ qs[q].wrote
        /\ ~Bundle(q).cached
        /\ qs[q].session_id = "s1"
        /\ qs[q].query = <<"A", " ">>
        /\ Len(history) = 1
        /\ history[1] = RowOf(q, Bundle(q))
        /\ KeyOf(<<"a">>) \in DOMAIN cache
        /\ cache[KeyOf(<<"a">>)].value.json = Bundle(q)

\* C6 as stated: once delete_document(d) has completed, no query is served
\* as a cache hit with a bundle whose sources cite document d.
C6_NoStaleHit ==
    \A q \in DOMAIN qs :
        (Answered(q) /\ Bundle(q).cached)
            => \A i \in 1..Len(Bundle(q).sources) :
                   Bundle(q).sources[i].document_id \notin qs[q].deleted_before

\* C7 as stated: every persisted chunk's document_id is the id of an
\* existing Document row.
C7_NoOrphanChunks == \A c \in chunks : c.document_id \in DOMAIN docs

\* C8 as stated: a failure of the cache backend during a query or during
\* cache invalidation is never surfaced to the caller: no query ends in an
\* error caused by the cache, and no delete_document or clear_cache ends in
\* an error.
C8_CacheFailureHidden ==
    /\ \A q \in DOMAIN qs : qs[q].pc = "done" => ~(qs[q].status = "error" /\ qs[q].error = "cache")
    /\ \A h \in DOMAIN ds : ds[h].pc = "done" => ds[h].status # "error"

\* C9: when the cache backend was unreachable at construction, caching is
\* disabled, no request ever stands at a cache read, write or invalidation,
\* the cache is as it was, and every answered query has cached = false,
\* the ones with context having filed their history row.
C9_DegradedNoCache ==
    ~ping_ok =>
        /\ cache_enabled = FALSE
        /\ cache = InitialCache
        /\ \A q \in DOMAIN qs :
             /\ qs[q].pc \notin {"check", "store"}
             /\ qs[q].error # "cache"
             /\ ~qs[q].wrote
             /\ Answered(q) =>
                  /\ Bundle(q).cached = FALSE
                  /\ Bundle(q).answer # NotFoundAnswer =>
                       \E i \in 1..Len(history) : history[i] = RowOf(q, Bundle(q))
        /\ \A h \in DOMAIN ds :
             /\ ds[h].pc \notin {"keys", "del"}
             /\ ds[h].status # "error"

C9_Witness ==
    /\ ~ping_ok
    /\ \E q \in DOMAIN qs :
         /\ Answered(q)
         /\ Bundle(q).answer # NotFoundAnswer
         /\ \E p \in DOMAIN qs :
              /\ q \in qs[p].started_after
              /\ qs[p].query = qs[q].query
              /\ Answered(p)
              /\ Bundle(p).answer # NotFoundAnswer
    /\ Len(history) = 2
    /\ \E h \in DOMAIN ds : ds[h].pc = "done" /\ ds[h].status = "ok" /\ ds[h].kind = "clear"

\* A query that ended in an error raised by the embedding or the
\* completion call.
RemoteFailure(q) == qs[q].status = "error" /\ qs[q].error \in {"embedding", "completion"}

\* C11: a query whose embedding or completion call fails ends with an
\* error and no bundle, and has written neither a history record nor a
\* cache entry: the failing step changes neither store, and the query has
\* passed neither write.
C11_RemoteFailureSurfaced ==
    [][\A q \in DOMAIN qs :
         RemoteFailure(q)' =>
            /\ qs'[q].pc = "done"
            /\ qs'[q].result = NoResult
            /\ qs'[q].session_id = ""
            /\ ~qs'[q].wrote
            /\ \A k \in DOMAIN cache' : cache'[k].writer # q
            /\ ~RemoteFailure(q) =>
                 /\ qs[q].pc \in {"retrieve", "generate"}
                 /\ history' = history
                 /\ cache' = cache]_vars

C11_Witness ==
    \E q, p \in DOMAIN qs :
        /\ qs[q].pc = "done" /\ qs[q].status = "error" /\ qs[q].error = "completion"
        /\ qs[p].pc = "done" /\ qs[p].status = "error" /\ qs[p].error = "embedding"
        /\ history = << >>
        /\ cache = InitialCache
        /\ cache_enabled

\* C12 as stated: a query's history record and its cache entry are written
\* both or neither; with the cache enabled no finished query has committed
\* its history record without having written its cache entry.
C12_NoPartialWrite ==
    \A q \in DOMAIN qs :
        (cache_enabled /\ qs[q].pc = "done" /\ qs[q].session_id # "") => qs[q].wrote

\* The persisted chunk rows of a document.
RowsOf(d) == {c \in chunks : c.document_id = d}

\* The document of upload u is marked processed and the chunks of its text
\* are persisted, at least one when the text is not empty.
Processed(u) ==
    /\ ups[u].doc_id \in DOMAIN docs
    /\ docs[ups[u].doc_id].processed
    /\ Cardinality(RowsOf(ups[u].doc_id)) = Len(chunk_text(ups[u].text))
    /\ TextLen(ups[u].text) > 0 => RowsOf(ups[u].doc_id) # {}

\* C13: the Document row of an upload of a supported type is created with
\* processed = false and without chunks, and once its task is scheduled
\* and run the document eventually is processed with its chunks persisted
\* (at least one when the extracted text is not empty), unless extraction
\* (the staged file missing or unreadable), the embedding call or the
\* store failed for it.
C13_EventuallyProcessed ==
    \A u \in 1..MaxUploads :
        /\ [](ups[u].pc = "extract" =>
                /\ ups[u].file_type \in {"pdf", "docx", "xlsx", "txt"}
                /\ ups[u].doc_id \in DOMAIN docs
                /\ docs[ups[u].doc_id].processed = FALSE
                /\ RowsOf(ups[u].doc_id) = {})
        /\ (ups[u].pc = "extract") ~>
               (Processed(u) \/ ups[u].cause \in {"ingest", "nofile", "commit"})

C13_Witness ==
    \E u, v \in DOMAIN ups :
        /\ ups[u].status = "processed" /\ ups[v].status = "processed"
        /\ ups[u].filename # ups[v].filename
        /\ Processed(u) /\ Processed(v)
        /\ ups[u].text = Slice("w", 2, 1148)
        /\ Cardinality(RowsOf(ups[u].doc_id)) = 2
        /\ ups[v].body = Blank(4)
        /\ RowsOf(ups[v].doc_id) = {}
        /\ files = << >>

\* C14 as stated: when extraction, chunking, embedding or persistence
\* fails for a document, its task ends without the failure leaving it, the
\* document has processed = false, and the step changes no chunk and no
\* other document.
C14_FailureContained ==
    [][\A u \in DOMAIN ups :
         (ups[u].pc # "done" /\ ups'[u].pc = "done" /\ ups'[u].cause \in {"ingest", "commit"})
         => /\ ups'[u].status # "escaped"
            /\ ups[u].doc_id \in DOMAIN docs' => ~docs'[ups[u].doc_id].processed
            /\ chunks' = chunks
            /\ \A d \in DOMAIN docs \ {ups[u].doc_id} :
                   d \in DOMAIN docs' /\ docs'[d] = docs[d]]_vars

\* The suffixes of the supported types, as in the mapping of lines 108-115.
SupportedSuffixes == {".pdf", ".docx", ".doc", ".xlsx", ".xls", ".txt"}

\* C15: an upload whose file name has no supported extension is rejected
\* in the step that receives it, with no Document row created, no file
\* staged and no task scheduled, and stays rejected.
C15_UnsupportedRejected ==
    [][\A u \in DOMAIN ups :
         /\ (/\ ups[u].pc = "idle"
             /\ ups'[u].pc # "idle"
             /\ LowerSuffix(ups'[u].filename.suffix) \notin SupportedSuffixes)
            => /\ ups'[u].pc = "done"
               /\ ups'[u].status = "rejected"
               /\ ups'[u].doc_id = 0
               /\ docs' = docs
               /\ chunks' = chunks
               /\ files' = files
               /\ next_id' = next_id
         /\ ups[u].status = "rejected" => ups'[u] = ups[u]]_vars

C15_Witness ==
    \E u, v \in DOMAIN ups :
        /\ ups[u].status = "rejected"
        /\ ups[u].filename.suffix = ".bin"
        /\ u < v
        /\ ups[v].status = "processed"
        /\ DOMAIN docs = {ups[v].doc_id}
        /\ ups[v].doc_id = 1
        /\ files = << >>

\* C16 as stated: the sources list of the response to a request carrying
\* top_k = k has at most k entries.
C16_SourcesCapped ==
    \A q \in DOMAIN qs : Answered(q) => Len(Bundle(q).sources) <= qs[q].top_k

\* C17 as stated: two executions of vector_search over the same index
\* state with the same query vector, top_k and floor return the same
\* chunks in the same order.
C17_SearchDeterministic == sin.phase = "twice" => sin.again = sin.result

\* C18: get_document and delete_document on an id with no Document row
\* answer not-found in the step that receives them, which changes no
\* document, no chunk, no history row and no cache entry, and they take no
\* further step.
C18_NotFoundFrame ==
    [][\A h \in DOMAIN ds :
         /\ (/\ ds[h].pc = "idle"
             /\ ds'[h].pc # "idle"
             /\ ds'[h].kind \in {"get", "delete"}
             /\ ds'[h].doc \notin DOMAIN docs)
            => /\ ds'[h].pc = "done"
               /\ ds'[h].status = "404"
               /\ docs' = docs
               /\ chunks' = chunks
               /\ history' = history
               /\ cache' = cache
         /\ ds[h].status = "404" => ds'[h] = ds[h]]_vars

C18_Witness ==
    \E h \in DOMAIN ds :
        /\ ds[h].pc = "done" /\ ds[h].kind = "delete" /\ ds[h].status = "404"
        /\ ds[h].doc = 3
        /\ chunks = CorpusChunks
        /\ DOMAIN docs = {1, 2}
        /\ \E q \in DOMAIN qs : qs[q].wrote /\ KeyOf(qs[q].query) \in DOMAIN cache

\* C19: the chunk_index values of the persisted chunks of any one document
\* are pairwise distinct and are exactly 0..n-1, where n is the number of
\* chunks the chunker produced for the document, the chunk of index i being
\* the i-th piece of the text.
C19_ContiguousIndices ==
    /\ \A d \in {c.document_id : c \in chunks} :
         /\ {c.chunk_index : c \in RowsOf(d)} = 0..(Cardinality(RowsOf(d)) - 1)
         /\ \A c1, c2 \in RowsOf(d) : c1.chunk_index = c2.chunk_index => c1 = c2
    /\ \A u \in DOMAIN ups :
         RowsOf(ups[u].doc_id) # {} =>
            /\ Cardinality(RowsOf(ups[u].doc_id)) = Len(split_text(ups[u].text))
            /\ \A c \in RowsOf(ups[u].doc_id) :
                   c.content = split_text(ups[u].text)[c.chunk_index + 1]

C19_Witness ==
    \E u, v \in DOMAIN ups :
        /\ {c.chunk_index : c \in RowsOf(ups[u].doc_id)} = {0, 1}
        /\ {c.chunk_index : c \in RowsOf(ups[v].doc_id)} = {0}
        /\ ups[u].doc_id \notin DOMAIN docs

\* The keys of the store that lie in the pipeline's namespace.
NamespaceKeys == {k \in DOMAIN cache : k.prefix = "rag:query:"}

\* C20: clear_cache lists exactly the keys of the pipeline's namespace and
\* deletes the entries it listed, every other entry of the store staying
\* as it was; with caching disabled it returns without touching the store.
C20_ClearFrame ==
    [][\A h \in DOMAIN ds :
         /\ (ds[h].pc = "keys" /\ ds'[h].pc # "keys" /\ ds'[h].status # "error")
            => /\ cache' = cache
               /\ ds'[h].pc = "del" => (ds'[h].keys = NamespaceKeys /\ NamespaceKeys # {})
               /\ ds'[h].pc = "done" => NamespaceKeys = {}
         /\ (ds[h].pc = "del" /\ ds'[h].pc # "del" /\ ds'[h].status # "error")
            => /\ DOMAIN cache' = DOMAIN cache \ ds[h].keys
               /\ \A k \in DOMAIN cache' : cache'[k] = cache[k]
               /\ \A k \in DOMAIN cache : k.prefix # "rag:query:" => k \in DOMAIN cache'
               /\ \A k \in DOMAIN cache' : k.prefix = "rag:query:" => k \notin ds[h].keys
         /\ (ds[h].pc = "idle" /\ ds'[h].kind = "clear" /\ ~cache_enabled)
            => /\ ds'[h].pc = "done"
               /\ ds'[h].status = "ok"
               /\ cache' = cache]_vars

C20_Witness ==
    \E h \in DOMAIN ds :
        /\ ds[h].pc = "done" /\ ds[h].kind = "clear" /\ ds[h].status = "ok"
        /\ cache = InitialCache
        /\ \A q \in DOMAIN qs : qs[q].wrote /\ "cleared" \in qs[q].entry_events

\* C21 as stated: a Document row is changed at most once after its
\* creation, by the step that populates its text and sets processed, and a
\* document whose processed flag is true never has it false again.
C21_MutatedOnce ==
    [][\A d \in DOMAIN docs \cap DOMAIN docs' :
         /\ docs[d].processed => docs'[d].processed
         /\ docs'[d] # docs[d] =>
              /\ ~docs[d].processed
              /\ docs'[d].processed
              /\ \E u \in DOMAIN ups :
                     /\ ups[u].doc_id = d
                     /\ docs'[d].content = Prefix(ups[u].text, ContentPreviewLen)]_vars

\* C22: the completion chain is called only by a query whose own search
\* returned at least one chunk: a query comes to the completion call only
\* from its retrieval step, with rows of the index above the floor and a
\* non-empty source list, and every query that stands at or has passed the
\* completion call holds the sources of that search.
C22_CompletionNeedsContext ==
    [][\A q \in DOMAIN qs :
         /\ (qs'[q].pc = "generate" /\ qs[q].pc # "generate")
            => /\ qs[q].pc = "retrieve"
               /\ Relevant(qs[q].query) # {}
               /\ Len(qs'[q].sources) >= 1
               /\ \A i \in 1..Len(qs'[q].sources) :
                      \E c \in Relevant(qs[q].query) :
                          /\ c.document_id = qs'[q].sources[i].document_id
                          /\ c.chunk_index = qs'[q].sources[i].chunk_index
         /\ (qs[q].pc = "generate" /\ qs'[q].pc # "generate")
            => Len(qs[q].sources) >= 1
         /\ (qs[q].pc = "retrieve" /\ qs'[q].pc # "retrieve" /\ qs'[q].status # "error"
               /\ Relevant(qs[q].query) = {})
            => qs'[q].pc = "done"]_vars

C22_Witness ==
    \E q, p \in DOMAIN qs :
        /\ Answered(q) /\ ~Bundle(q).cached
        /\ Bundle(q).answer = <<"y">>
        /\ Len(Bundle(q).sources) = 2
        /\ Answered(p) /\ ~Bundle(p).cached
        /\ Bundle(p).answer = NotFoundAnswer
        /\ qs[p].query = <<"b">>
        /\ chunks = CorpusChunks
        /\ Len(history) = 1

\* A query that was answered from the cache.
Hit(q) == Answered(q) /\ Bundle(q).cached

\* C23: a cache hit is terminal and without side effects: the lookup step
\* that finds an entry ends the call and leaves the history, the cache
\* (values and expiry times) and the clock as they were; a query answered
\* from the cache has retrieved nothing, filed no history row and written
\* no cache entry, and takes no further step.
C23_HitTerminal ==
    [][\A q \in DOMAIN qs :
         /\ (/\ qs[q].pc = "check"
             /\ qs'[q].pc # "check"
             /\ qs'[q].status # "error"
             /\ KeyOf(qs[q].query) \in DOMAIN cache)
            => /\ qs'[q].pc = "done"
               /\ history' = history
               /\ cache' = cache
               /\ now' = now
               /\ docs' = docs /\ chunks' = chunks
         /\ Hit(q)' =>
               /\ qs'[q].sources = << >>
               /\ qs'[q].session_id = ""
               /\ ~qs'[q].wrote
               /\ \A k \in DOMAIN cache' : cache'[k].writer # q
               /\ Len(history') = Cardinality({p \in DOMAIN qs : qs'[p].session_id # ""})
         /\ Hit(q) => qs'[q] = qs[q]]_vars

C23_Witness ==
    \E q, p \in DOMAIN qs :
        /\ Hit(q)
        /\ qs[p].wrote /\ Answered(p)
        /\ now = 1
        /\ qs[q].start_time = 1
        /\ cache[KeyOf(qs[q].query)].expire_at = CacheTTL
        /\ cache[KeyOf(qs[q].query)].writer = p
        /\ Len(history) = 1

\* The entries of the store written by queries.
QueryEntries == {k \in DOMAIN cache : cache[k].writer \in DOMAIN qs}

\* C24: an entry written by a query expires 3600 s after its write and is
\* in the store, and so served as a hit, only before that; a lookup that
\* finds no entry (expired or never written) goes on to retrieval unless
\* the backend fails, and a query that then completes writes an entry with
\* a fresh expiry 3600 s ahead, having filed its own history row.
C24_ExpiryThenMiss ==
    /\ [](\A k \in QueryEntries :
             /\ cache[k].expire_at > now
             /\ cache[k].expire_at <= now + 3600
             /\ cache[k].expire_at >= qs[cache[k].writer].start_time + 3600)
    /\ [][\A q \in DOMAIN qs :
            /\ (qs[q].pc = "check" /\ qs'[q].pc = "done" /\ qs'[q].status = "ok")
               => /\ KeyOf(qs[q].query) \in DOMAIN cache
                  /\ cache[KeyOf(qs[q].query)].expire_at > now
            /\ (qs[q].pc = "check" /\ qs'[q].pc # "check" /\ KeyOf(qs[q].query) \notin DOMAIN cache)
               => \/ qs'[q].pc = "retrieve" /\ qs'[q].status = ""
                  \/ qs'[q].status = "error" /\ qs'[q].error = "cache"
            /\ (qs[q].pc = "store" /\ qs'[q].pc # "store" /\ qs'[q].status # "error")
               => /\ cache'[KeyOf(qs[q].query)].expire_at = now + 3600
                  /\ cache'[KeyOf(qs[q].query)].writer = q
                  /\ cache'[KeyOf(qs[q].query)].value = [json |-> qs[q].result]
                  /\ \E i \in 1..Len(history) : history[i] = RowOf(q, qs[q].result)]_vars

C24_Witness ==
    \E q1, q2 \in DOMAIN qs :
        /\ q1 # q2
        /\ Answered(q1) /\ qs[q1].wrote
        /\ "expired" \in qs[q1].entry_events
        /\ q1 \in qs[q2].started_after
        /\ KeyOf(qs[q1].query) = KeyOf(qs[q2].query)
        /\ qs[q2].start_time >= 3600
        /\ Answered(q2) /\ ~Bundle(q2).cached /\ qs[q2].wrote
        /\ Bundle(q2).answer # NotFoundAnswer
        /\ Len(history) = 2
        /\ cache[KeyOf(qs[q2].query)].writer = q2
        /\ cache[KeyOf(qs[q2].query)].expire_at >= 2 * 3600

\* C25: retrieve_context returns one source entry and one labelled context
\* block per chunk the search returned, in the order of the search (scores
\* non-increasing), each entry with that chunk's document_id, chunk_index
\* and score and each block with its label and content; the context is
\* empty exactly when the search returned no chunk.
C25_SourcesFollowSearch ==
    sin.phase = "done" =>
        /\ \E r \in vector_search(chunks, EmbedQuery(sin.query), sin.top_k, DefaultThreshold) :
             /\ Len(sin.sources) = Len(r)
             /\ Len(sin.context) = Len(r)
             /\ \A i \in 1..Len(r) :
                  /\ sin.sources[i].document_id = r[i].chunk.document_id
                  /\ sin.sources[i].chunk_index = r[i].chunk.chunk_index
                  /\ sin.sources[i].similarity_score = r[i].score
                  /\ sin.context[i].document_id = r[i].chunk.document_id
                  /\ sin.context[i].section = r[i].chunk.chunk_index
                  /\ sin.context[i].content = r[i].chunk.content
        /\ \A i, j \in 1..Len(sin.sources) :
             i < j => sin.sources[i].similarity_score >= sin.sources[j].similarity_score
        /\ \A i \in 1..Len(sin.sources) :
             \E c \in chunks :
                 /\ c.document_id = sin.sources[i].document_id
                 /\ c.chunk_index = sin.sources[i].chunk_index
                 /\ Score(c, EmbedQuery(sin.query)) = sin.sources[i].similarity_score
                 /\ c.content = sin.context[i].content
        /\ Len(sin.sources) = Min(sin.top_k, Cardinality(Relevant(sin.query)))
        /\ (Len(sin.context) = 0) <=> (Relevant(sin.query) = {})

C25_Witness ==
    /\ sin.phase = "done"
    /\ sin.top_k = 3
    /\ Len(sin.sources) = 3
    /\ Len(sin.context) = 3
    /\ sin.sources[1].similarity_score > sin.sources[3].similarity_score
    /\ sin.sources[1].document_id # sin.sources[3].document_id
    /\ sin.sources[2].content_preview.ellipsis
    /\ Cardinality(Relevant(sin.query)) = 4

\* C26 as stated: a document has persisted chunks only if its processed
\* flag is true; a document left with processed = false has no chunk in
\* the index.
C26_ChunksOnlyIfProcessed ==
    \A d \in DOMAIN docs : RowsOf(d) # {} => docs[d].processed

\* C27 as stated: for any interleaving of two uploads and their tasks,
\* every persisted chunk of a document holds text of the file uploaded for
\* that document, and no task fails because of what the other upload or
\* its task did to the staged file.
C27_UploadsIsolated ==
    \A u \in DOMAIN ups :
        /\ \A c \in RowsOf(ups[u].doc_id) :
               /\ c.chunk_index + 1 \in DOMAIN split_text(StripText(ups[u].body))
               /\ c.content = split_text(StripText(ups[u].body))[c.chunk_index + 1]
        /\ ups[u].cause \notin {"nofile", "remove"}

=============================================================================
